---------------------------- MODULE Spec2Model ----------------------------
(* llm-mcp-proxy: the tool-calling orchestrator (OpenAIWithToolProvider.chat  *)
(* and chatStream behind the /v1/chat/completions route) and the registry of  *)
(* MCP clients (getMCPClientByName, updateMCPServer, clearMCPClientCache).    *)
(*                                                                            *)
(* Four specifications over one set of variables:                             *)
(*   Spec          one request through the route, streaming or not;           *)
(*   SpecRegistry  concurrent callers of the registry, suspended at the       *)
(*                 connect step of getMCPClientByName / updateMCPServer;      *)
(*   SpecCancel    one streaming request whose caller may disconnect;         *)
(*   SpecProviders one streaming request to the DeepSeek or Ollama provider.  *)
EXTENDS Naturals, Sequences, FiniteSets

VARIABLES
  \* ---- providers/index.ts, utils/mcp.ts: module-level state of the registry
  mcpConfig,            \* utils/mcp.ts mcpConfig.mcpServers: server -> launch config
  isConfigInitialized,  \* providers/index.ts isConfigInitialized
  mcpClients,           \* providers/index.ts mcpClients: server -> cached Client
  clients,              \* every Client object constructed so far (its index is its identity)
  call,                 \* registry callers: the call each one is suspended in
  ret,                  \* registry callers: what the last finished call returned
  \* ---- routes/chat.ts and providers/openai_with_tool.ts: one request
  req,                  \* the request: stream, isYolo, mcpServerNames, messages
  pc,                   \* where the handler of the request is suspended
  loop,                 \* chat / chatStream: loop
  messages,             \* chat / chatStream: messages, the running Conversation
  tools,                \* chat / chatStream: tools of the current turn
  toolLists,            \* the getToolList() answers awaited for the current turn
  streamEnded,          \* chatStream: streamEnded
  toolResults,          \* chat / chatStream: toolResults
  toolCallStates,       \* chatStream: toolCallStates, in insertion order
  resp,                 \* the model backend's answer being read
  finishedWithToolCalls,\* chatStream: finishedWithToolCalls
  cursor,               \* position of the for-of loop the handler is suspended in
  chatClients,          \* chat: mcpClients, the clients obtained before the loop
  choice,               \* chat: response.choices[0] of the current turn
  reply,                \* what the route sent as the HTTP reply of a non-streaming request
  out,                  \* the frames written to the outward stream, and whether it was ended
  log                   \* history: generation calls, resolved calls, tool invocations, exit path

regVars == <<mcpConfig, isConfigInitialized, mcpClients, clients>>
callVars == <<call, ret>>
reqVars == <<req, pc, loop, messages, tools, toolLists, streamEnded, toolResults,
             toolCallStates, resp, finishedWithToolCalls, cursor, chatClients,
             choice, reply, out, log>>
\* what chatStream leaves alone / what chat leaves alone
chatOnly == <<chatClients, choice, reply>>
streamOnly == <<streamEnded, toolCallStates, resp, finishedWithToolCalls, out>>
vars == <<mcpConfig, isConfigInitialized, mcpClients, clients, call, ret,
          req, pc, loop, messages, tools, toolLists, streamEnded, toolResults,
          toolCallStates, resp, finishedWithToolCalls, cursor, chatClients,
          choice, reply, out, log>>

-----------------------------------------------------------------------------
(* Strings.  A string is a sequence of tokens; a token stands for one         *)
(* character or for one run of ordinary characters (a word).  The alphabet    *)
(* has what the parsing and path-extraction code tells apart.                 *)

LB == "{"
RB == "}"
QT == "dquote"      \* "
COLON == ":"
COMMA == ","
SP == "space"       \* U+0020: white space for JSON, for trim() and for \s
NBSP == "nbsp"      \* U+00A0: white space for trim() and \s, not for JSON
SL == "/"
BS == "backslash"   \* \
WODE == "wo_de"     \* the two characters matched by the literal of /我的(.*?)中/
ZHONG == "zhong"    \* the closing character of that pattern
Words == {"path", "q", "x", "books", "read"}
Tok == {LB, RB, QT, COLON, COMMA, SP, NBSP, SL, BS, WODE, ZHONG} \cup Words

IsWs(t) == t \in {SP, NBSP}
IsSep(t) == t \in {SL, BS}

RECURSIVE TrimLeft(_)
TrimLeft(s) == IF s # <<>> /\ IsWs(Head(s)) THEN TrimLeft(Tail(s)) ELSE s

RECURSIVE TrimRight(_)
TrimRight(s) ==
  IF s # <<>> /\ IsWs(s[Len(s)]) THEN TrimRight(SubSeq(s, 1, Len(s) - 1)) ELSE s

\* String.prototype.trim
Trim(s) == TrimRight(TrimLeft(s))

\* JSON values: an object whose members are strings, or a string.
JSONFail == [ok |-> FALSE, kind |-> "none", obj |-> <<>>, str |-> <<>>]
JSONObject(o) == [ok |-> TRUE, kind |-> "object", obj |-> o, str |-> <<>>]
JSONString(v) == [ok |-> TRUE, kind |-> "string", obj |-> <<>>, str |-> v]
ScanFail == [ok |-> FALSE, val |-> <<>>, next |-> 0]

RECURSIVE SkipWs(_, _)
SkipWs(s, i) == IF i <= Len(s) /\ s[i] = SP THEN SkipWs(s, i + 1) ELSE i

\* The characters of a string literal after its opening quote, up to the
\* closing one; \" \\ \/ are the escapes of the alphabet.
RECURSIVE ScanString(_, _, _)
ScanString(s, i, acc) ==
  IF i > Len(s) THEN ScanFail
  ELSE IF s[i] = QT THEN [ok |-> TRUE, val |-> acc, next |-> i + 1]
  ELSE IF s[i] = BS
    THEN IF i + 1 <= Len(s) /\ s[i + 1] \in {QT, BS, SL}
           THEN ScanString(s, i + 2, Append(acc, s[i + 1]))
           ELSE ScanFail
  ELSE ScanString(s, i + 1, Append(acc, s[i]))

PutMember(o, k, v) == [x \in DOMAIN o \cup {k} |-> IF x = k THEN v ELSE o[x]]

\* The members of an object from position i (white space skipped), the
\* opening brace or a comma read: "key" : "value", then a comma or the brace.
RECURSIVE ScanMembers(_, _, _)
ScanMembers(s, i, o) ==
  IF i > Len(s) \/ s[i] # QT THEN ScanFail
  ELSE LET k == ScanString(s, i + 1, <<>>) IN
    IF ~k.ok THEN ScanFail
    ELSE LET c == SkipWs(s, k.next) IN
      IF c > Len(s) \/ s[c] # COLON THEN ScanFail
      ELSE LET q == SkipWs(s, c + 1) IN
        IF q > Len(s) \/ s[q] # QT THEN ScanFail
        ELSE LET v == ScanString(s, q + 1, <<>>) IN
          IF ~v.ok THEN ScanFail
          ELSE LET e == SkipWs(s, v.next)
                   o2 == PutMember(o, k.val, v.val) IN
            IF e > Len(s) THEN ScanFail
            ELSE IF s[e] = RB THEN [ok |-> TRUE, val |-> o2, next |-> e + 1]
            ELSE IF s[e] = COMMA THEN ScanMembers(s, SkipWs(s, e + 1), o2)
            ELSE ScanFail

\* JSON.parse
JSONParse(s) ==
  LET i == SkipWs(s, 1) IN
  IF i > Len(s) THEN JSONFail
  ELSE IF s[i] = QT
    THEN LET r == ScanString(s, i + 1, <<>>) IN
         IF r.ok /\ SkipWs(s, r.next) > Len(s) THEN JSONString(r.val) ELSE JSONFail
  ELSE IF s[i] = LB
    THEN LET j == SkipWs(s, i + 1) IN
         IF j <= Len(s) /\ s[j] = RB
           THEN IF SkipWs(s, j + 1) > Len(s) THEN JSONObject(<<>>) ELSE JSONFail
           ELSE LET r == ScanMembers(s, j, <<>>) IN
                IF r.ok /\ SkipWs(s, r.next) > Len(s) THEN JSONObject(r.val) ELSE JSONFail
  ELSE JSONFail

\* value.path is truthy: the member exists and is not the empty string.
PathKey == <<"path">>
HasPath(v) ==
  v.ok /\ v.kind = "object" /\ PathKey \in DOMAIN v.obj /\ v.obj[PathKey] # <<>>

RECURSIVE Escape(_)
Escape(s) ==
  IF s = <<>> THEN <<>>
  ELSE (IF Head(s) \in {QT, BS} THEN <<BS, Head(s)>> ELSE <<Head(s)>>) \o Escape(Tail(s))

Quoted(s) == <<QT>> \o Escape(s) \o <<QT>>

RECURSIVE StringifyMembers(_, _)
StringifyMembers(o, keys) ==
  IF keys = {} THEN <<>>
  ELSE LET k == CHOOSE x \in keys : TRUE IN
       Quoted(k) \o <<COLON>> \o Quoted(o[k])
         \o (IF keys = {k} THEN <<>> ELSE <<COMMA>>)
         \o StringifyMembers(o, keys \ {k})

\* JSON.stringify of an object of the model
JSONStringify(o) == <<LB>> \o StringifyMembers(o, DOMAIN o) \o <<RB>>

\* { path } of chatStream's recovery
PathObject(p) == [k \in {PathKey} |-> p]

RECURSIVE UnescapeQuotes(_)
UnescapeQuotes(s) ==
  IF s = <<>> THEN <<>>
  ELSE IF Len(s) >= 2 /\ s[1] = BS /\ s[2] = QT
    THEN <<QT>> \o UnescapeQuotes(SubSeq(s, 3, Len(s)))
  ELSE <<Head(s)>> \o UnescapeQuotes(Tail(s))

StripQuotes(s) ==
  LET a == IF s # <<>> /\ Head(s) = QT THEN Tail(s) ELSE s IN
  IF a # <<>> /\ a[Len(a)] = QT THEN SubSeq(a, 1, Len(a) - 1) ELSE a

RemoveWs(s) == SelectSeq(s, LAMBDA t : ~IsWs(t))

\* cleaned.match(/"path":"([^"]+)"/)
PathPattern(s) ==
  \E i \in 1..Len(s) :
    /\ i + 5 <= Len(s)
    /\ SubSeq(s, i, i + 4) = <<QT, "path", QT, COLON, QT>>
    /\ s[i + 5] # QT
    /\ \E j \in (i + 6)..Len(s) : s[j] = QT

\* '/' + str.split(/[/\\]+/).filter(Boolean).join('/'): every maximal run of
\* characters that are no separator, each after one slash.
RECURSIVE JoinParts(_, _)
JoinParts(s, inPart) ==
  IF s = <<>> THEN <<>>
  ELSE IF IsSep(Head(s)) THEN JoinParts(Tail(s), FALSE)
  ELSE (IF inPart THEN <<>> ELSE <<SL>>) \o <<Head(s)>> \o JoinParts(Tail(s), TRUE)

\* cleanAndParseJSON: [ok |-> FALSE] stands for the Error it throws.
cleanAndParseJSON(str) ==
  IF str = <<>> \/ Trim(str) = <<>> THEN JSONFail
  ELSE LET direct == JSONParse(str) IN
    IF direct.ok /\ direct.kind = "object" THEN direct
    ELSE LET c1 == RemoveWs(StripQuotes(UnescapeQuotes(str)))
             c2 == IF c1 # <<>> /\ Head(c1) = LB THEN c1 ELSE <<LB>> \o c1
             c3 == IF c2[Len(c2)] = RB THEN c2 ELSE c2 \o <<RB>>
             path == JoinParts(str, FALSE)
             cleaned == IF PathPattern(c3) THEN c3
                        ELSE <<LB, QT, "path", QT, COLON, QT>> \o path \o <<QT, RB>>
             parsed == JSONParse(cleaned) IN
      IF ~PathPattern(c3) /\ path = <<>> THEN JSONFail
      ELSE IF HasPath(parsed) THEN parsed
      ELSE JSONFail

\* The index of the first zhong after position i, or 0.
RECURSIVE FirstZhong(_, _)
FirstZhong(s, i) ==
  IF i > Len(s) THEN 0 ELSE IF s[i] = ZHONG THEN i ELSE FirstZhong(s, i + 1)

RECURSIVE FirstWode(_, _)
FirstWode(s, i) ==
  IF i > Len(s) THEN 0 ELSE IF s[i] = WODE THEN i ELSE FirstWode(s, i + 1)

\* The end of the match of ([/\\][^/\\]+)+ that begins at separator i: the
\* run after it, then every further separator that a run follows.
RECURSIVE RunEnd(_, _)
RunEnd(s, i) == IF i + 1 <= Len(s) /\ ~IsSep(s[i + 1]) THEN RunEnd(s, i + 1) ELSE i

RECURSIVE PathEnd(_, _)
PathEnd(s, i) ==
  LET e == RunEnd(s, i + 1) IN
  IF e + 2 <= Len(s) /\ IsSep(s[e + 1]) /\ ~IsSep(s[e + 2]) THEN PathEnd(s, e + 1) ELSE e

RECURSIVE FirstPathStart(_, _)
FirstPathStart(s, i) ==
  IF i + 1 > Len(s) THEN 0
  ELSE IF IsSep(s[i]) /\ ~IsSep(s[i + 1]) THEN i
  ELSE FirstPathStart(s, i + 1)

Slashes(s) == [i \in DOMAIN s |-> IF s[i] = BS THEN SL ELSE s[i]]

NoPath == [found |-> FALSE, path |-> <<>>]     \* null

\* extractPathFromMessage
extractPathFromMessage(message) ==
  LET w == FirstWode(message, 1)
      z == IF w = 0 THEN 0 ELSE FirstZhong(message, w + 1)
      g == IF z = 0 THEN <<>> ELSE SubSeq(message, w + 1, z - 1)
      p == FirstPathStart(message, 1) IN
  IF g # <<>> THEN [found |-> TRUE, path |-> Trim(g)]
  ELSE IF p # 0 THEN [found |-> TRUE, path |-> Slashes(SubSeq(message, p, PathEnd(message, p)))]
  ELSE NoPath

-----------------------------------------------------------------------------
(* Registry: providers/index.ts                                               *)

Servers == {"s1", "s2"}
Cfgs == {"cfgA", "cfgB"}
NoCfg == "none"
Callers == {"a", "b"}
NoClient == 0            \* null

\* Client objects the model lets the program construct.
MaxClients == 2

Idle == [op |-> "idle", server |-> "none", client |-> NoClient]

\* new Client(...) followed by client.connect(transport): the process is
\* spawned and the call suspends.  by: the function that constructed it.
\* The last four fields are history: returned, the handle was handed to a
\* caller by getMCPClientByName; superseded, an updateMCPServer or a
\* clearMCPClientCache of its server began after it was constructed; old, it
\* had been handed out by then; reissued, it was handed out again after that.
NewClient(s, cfg, by) ==
  [server |-> s, cfg |-> cfg, by |-> by, state |-> "connecting",
   returned |-> FALSE, superseded |-> FALSE, old |-> FALSE, reissued |-> FALSE]

\* History only: an update or invalidation of s begins.
MarkOld(cs, s) ==
  [h \in DOMAIN cs |->
     IF cs[h].server = s
       THEN [cs[h] EXCEPT !.old = cs[h].returned, !.superseded = TRUE]
       ELSE cs[h]]

MarkReturned(cs, h) ==
  IF h = NoClient THEN cs
  ELSE [cs EXCEPT ![h].returned = TRUE, ![h].reissued = cs[h].old \/ cs[h].reissued]

\* getMCPClientByName, up to the suspension at client.connect: the cache hit,
\* the missing configuration, or the new client.  (The configuration is in
\* memory, so `await loadMCPClientByConfig()` resolves at once.)
getMCPClientByName(c, s) ==
  /\ UNCHANGED reqVars
  /\ call[c].op = "idle"
  /\ isConfigInitialized' = TRUE
  /\ IF mcpClients[s] # NoClient
       THEN /\ ret' = [ret EXCEPT ![c] = mcpClients[s]]
            /\ clients' = MarkReturned(clients, mcpClients[s])
            /\ UNCHANGED <<call, mcpClients, mcpConfig>>
       ELSE IF mcpConfig[s] = NoCfg
         THEN /\ ret' = [ret EXCEPT ![c] = NoClient]
              /\ UNCHANGED <<call, mcpClients, mcpConfig, clients>>
         ELSE /\ Len(clients) < MaxClients
              /\ clients' = Append(clients, NewClient(s, mcpConfig[s], "get"))
              /\ call' = [call EXCEPT ![c] =
                            [op |-> "get", server |-> s, client |-> Len(clients) + 1]]
              /\ UNCHANGED <<ret, mcpClients, mcpConfig>>

\* client.connect resolved: the client is cached and returned.
getConnected(c) ==
  /\ UNCHANGED reqVars
  /\ call[c].op = "get"
  /\ LET h == call[c].client IN
       /\ mcpClients' = [mcpClients EXCEPT ![call[c].server] = h]
       /\ clients' = MarkReturned([clients EXCEPT ![h].state = "connected"], h)
       /\ ret' = [ret EXCEPT ![c] = h]
  /\ call' = [call EXCEPT ![c] = Idle]
  /\ UNCHANGED <<mcpConfig, isConfigInitialized>>

\* A rejected connect that leaves its client in the cache.
getConnectFailed_Cached(c) ==
  /\ UNCHANGED reqVars
  /\ call[c].op = "get"
  /\ clients' = [clients EXCEPT ![call[c].client].state = "failed"]
  /\ mcpClients' = [mcpClients EXCEPT ![call[c].server] = call[c].client]
  /\ ret' = [ret EXCEPT ![c] = NoClient]
  /\ call' = [call EXCEPT ![c] = Idle]
  /\ UNCHANGED <<mcpConfig, isConfigInitialized>>

\* client.connect rejected: null is returned, nothing is cached.
getConnectFailed(c) ==
  /\ UNCHANGED reqVars
  /\ call[c].op = "get"
  /\ clients' = [clients EXCEPT ![call[c].client].state = "failed"]
  /\ ret' = [ret EXCEPT ![c] = NoClient]
  /\ call' = [call EXCEPT ![c] = Idle]
  /\ UNCHANGED <<mcpConfig, isConfigInitialized, mcpClients>>

\* An update that replaces the configuration and leaves the cached client.
updateMCPServer_KeepCache(c, s, cfg) ==
  /\ UNCHANGED reqVars
  /\ call[c].op = "idle"
  /\ Len(clients) < MaxClients
  /\ mcpConfig' = [mcpConfig EXCEPT ![s] = cfg]
  /\ isConfigInitialized' = TRUE
  /\ UNCHANGED mcpClients
  /\ clients' = Append(MarkOld(clients, s), NewClient(s, cfg, "update"))
  /\ call' = [call EXCEPT ![c] =
                [op |-> "update", server |-> s, client |-> Len(clients) + 1]]
  /\ UNCHANGED ret

\* updateMCPServer, up to the connect step: the configuration is replaced,
\* the cached client dropped, and a new client starts connecting.
updateMCPServer(c, s, cfg) ==
  /\ UNCHANGED reqVars
  /\ call[c].op = "idle"
  /\ Len(clients) < MaxClients
  /\ mcpConfig' = [mcpConfig EXCEPT ![s] = cfg]
  /\ isConfigInitialized' = TRUE
  /\ mcpClients' = [mcpClients EXCEPT ![s] = NoClient]
  /\ clients' = Append(MarkOld(clients, s), NewClient(s, cfg, "update"))
  /\ call' = [call EXCEPT ![c] =
                [op |-> "update", server |-> s, client |-> Len(clients) + 1]]
  /\ UNCHANGED ret

updateConnected(c) ==
  /\ UNCHANGED reqVars
  /\ call[c].op = "update"
  /\ LET h == call[c].client IN
       /\ mcpClients' = [mcpClients EXCEPT ![call[c].server] = h]
       /\ clients' = [clients EXCEPT ![h].state = "connected"]
       /\ ret' = [ret EXCEPT ![c] = h]
  /\ call' = [call EXCEPT ![c] = Idle]
  /\ UNCHANGED <<mcpConfig, isConfigInitialized>>

\* A rejected connect of an update that leaves its client in the cache.
updateConnectFailed_Cached(c) ==
  /\ UNCHANGED reqVars
  /\ call[c].op = "update"
  /\ clients' = [clients EXCEPT ![call[c].client].state = "failed"]
  /\ mcpClients' = [mcpClients EXCEPT ![call[c].server] = call[c].client]
  /\ ret' = [ret EXCEPT ![c] = NoClient]
  /\ call' = [call EXCEPT ![c] = Idle]
  /\ UNCHANGED <<mcpConfig, isConfigInitialized>>

updateConnectFailed(c) ==
  /\ UNCHANGED reqVars
  /\ call[c].op = "update"
  /\ clients' = [clients EXCEPT ![call[c].client].state = "failed"]
  /\ ret' = [ret EXCEPT ![c] = NoClient]
  /\ call' = [call EXCEPT ![c] = Idle]
  /\ UNCHANGED <<mcpConfig, isConfigInitialized, mcpClients>>

\* An invalidation of one server that empties the whole cache.
clearMCPClientCache_All(s) ==
  /\ UNCHANGED reqVars
  /\ mcpClients' = [x \in Servers |-> NoClient]
  /\ clients' = MarkOld(clients, s)
  /\ UNCHANGED <<mcpConfig, isConfigInitialized, call, ret>>

\* clearMCPClientCache(server)
clearMCPClientCache(s) ==
  /\ UNCHANGED reqVars
  /\ mcpClients' = [mcpClients EXCEPT ![s] = NoClient]
  /\ clients' = MarkOld(clients, s)
  /\ UNCHANGED <<mcpConfig, isConfigInitialized, call, ret>>

\* clearMCPClientCache()
clearAllMCPClientCache ==
  /\ UNCHANGED reqVars
  /\ mcpClients' = [s \in Servers |-> NoClient]
  /\ clients' = [h \in DOMAIN clients |->
                   [clients[h] EXCEPT !.old = clients[h].returned, !.superseded = TRUE]]
  /\ UNCHANGED <<mcpConfig, isConfigInitialized, call, ret>>

-----------------------------------------------------------------------------
(* One request: routes/chat.ts (POST /completions) and                        *)
(* providers/openai_with_tool.ts (chat, chatStream).                          *)

\* /** avoid dead loop */
MAX_TOOL_LOOPS == 5

\* Fragments one streamed tool call is delivered in.
MaxFrags == 2

\* getMCPClientByName as the request awaits it, with no other caller of the
\* registry in between: the cached client, null for a server without
\* configuration, else a new client that connects (ok) or does not.
GetAtomic(s, ok) ==
  IF mcpClients[s] # NoClient
    THEN [client |-> mcpClients[s], cache |-> mcpClients,
          made |-> MarkReturned(clients, mcpClients[s])]
  ELSE IF mcpConfig[s] = NoCfg
    THEN [client |-> NoClient, cache |-> mcpClients, made |-> clients]
  ELSE IF ok
    THEN [client |-> Len(clients) + 1,
          cache |-> [mcpClients EXCEPT ![s] = Len(clients) + 1],
          made |-> Append(clients, [NewClient(s, mcpConfig[s], "get")
                                      EXCEPT !.state = "connected", !.returned = TRUE])]
  ELSE [client |-> NoClient, cache |-> mcpClients,
        made |-> Append(clients, [NewClient(s, mcpConfig[s], "get")
                                    EXCEPT !.state = "failed"])]

\* What each tool server answers to listTools(): name and inputSchema.
ServerTools(s) ==
  IF s = "s1"
    THEN <<[name |-> "read", inputSchema |-> TRUE], [name |-> "list", inputSchema |-> TRUE]>>
    ELSE <<[name |-> "search", inputSchema |-> TRUE], [name |-> "draft", inputSchema |-> FALSE]>>

\* toolLists.flatMap(...) and the conversion loop: the names of the tools
\* that have a name and an inputSchema, in the order of the answers.
RECURSIVE ConvertTools(_)
ConvertTools(lists) ==
  IF lists = <<>> THEN <<>>
  ELSE LET valid == SelectSeq(Head(lists), LAMBDA tl : tl.name # "" /\ tl.inputSchema) IN
       [i \in 1..Len(valid) |-> valid[i].name] \o ConvertTools(Tail(lists))

\* --- frames of the outward stream
NoChunk == [frags |-> <<>>, finish |-> "none", n |-> 0]
Frame(type) ==
  [type |-> type, name |-> "", msg |-> "", chunk |-> NoChunk, call |-> "", quoted |-> FALSE]
\* stream.write(`data: ${JSON.stringify(chunk)}\n\n`)
ChunkFrame(ch) == [Frame("chunk") EXCEPT !.chunk = ch]
\* { type: 'tool_result', name, result }; call is history, not payload
ToolResultFrame(name, id) == [Frame("tool_result") EXCEPT !.name = name, !.call = id]
\* { type: 'tool_error', message }; call is history, not payload
ToolErrorFrame(msg, id) == [Frame("tool_error") EXCEPT !.msg = msg, !.call = id]
\* { type: 'error', message }
ErrorFrame(msg) == [Frame("error") EXCEPT !.msg = msg]
\* the route's { error: true, message, details }: it has no type
RouteErrorFrame == Frame("route_error")
\* chatStream writes data: "[DONE]" (a JSON string), the route data: [DONE]
DoneFrame(quoted) == [Frame("done") EXCEPT !.quoted = quoted]
LoopInfoFrame == Frame("loop_info")

\* stream.write / stream.end of the response; a write after end is not
\* delivered: it is kept apart, in late.
Write(o, f) == IF o.ended THEN [o EXCEPT !.late = Append(o.late, f)]
                          ELSE [o EXCEPT !.frames = Append(o.frames, f)]
End(o) == [o EXCEPT !.ended = TRUE]

\* chatStream's send(payload)
send(o, ended, f) == IF ~ended THEN Write(o, f) ELSE o

\* --- messages of the Conversation
Msg(role, content) == [role |-> role, content |-> content, name |-> "", id |-> "", calls |-> <<>>]
AssistantMsg(calls) == [Msg("assistant", <<>>) EXCEPT !.calls = calls]
ToolMsg(r) == [Msg("tool", <<"result">>) EXCEPT !.name = r.name, !.id = r.id]
\* Tool messages appended in the reverse of the order of the results.
ToolMsgs_Reversed(rs) == [i \in 1..Len(rs) |-> ToolMsg(rs[Len(rs) + 1 - i])]
ToolMsgs(rs) == [i \in 1..Len(rs) |-> ToolMsg(rs[i])]
CallIds(rs) == [i \in 1..Len(rs) |-> rs[i].id]

\* An endStream that reports the turn after the terminal frame, as the code
\* after the for-await would (lines 748-752).
endStream_ThenLoopInfo(o, ended, msgs, results) ==
  IF ~ended
    THEN [out |-> Write(End(Write(o, DoneFrame(TRUE))), LoopInfoFrame),
          messages |-> IF results # <<>>
                         THEN msgs \o <<AssistantMsg(CallIds(results))>> \o ToolMsgs(results)
                         ELSE msgs,
          streamEnded |-> TRUE]
    ELSE [out |-> o, messages |-> msgs, streamEnded |-> ended]

\* An endStream that stores the turn over the end of the Conversation instead
\* of after it.
endStream_Overwrite(o, ended, msgs, results) ==
  IF ~ended
    THEN [out |-> End(Write(o, DoneFrame(TRUE))),
          messages |-> IF results # <<>>
                         THEN SubSeq(msgs, 1, Len(msgs) - 1)
                                \o <<AssistantMsg(CallIds(results))>> \o ToolMsgs(results)
                         ELSE msgs,
          streamEnded |-> TRUE]
    ELSE [out |-> o, messages |-> msgs, streamEnded |-> ended]

\* chatStream's endStream(): the results of the turn are appended to the
\* messages, then the terminal frame is written and the stream ended, once.
endStream(o, ended, msgs, results) ==
  IF ~ended
    THEN [out |-> End(Write(o, DoneFrame(TRUE))),
          messages |-> IF results # <<>>
                         THEN msgs \o <<AssistantMsg(CallIds(results))>> \o ToolMsgs(results)
                         ELSE msgs,
          streamEnded |-> TRUE]
    ELSE [out |-> o, messages |-> msgs, streamEnded |-> ended]

\* A catch that reports the error and ends the stream without the terminal frame.
RouteCatch_NoDone(o) == End(Write(o, RouteErrorFrame))

\* A catch that reports the error twice before the terminal frame.
RouteCatch_TwoErrors(o) ==
  End(Write(Write(Write(o, RouteErrorFrame), RouteErrorFrame), DoneFrame(FALSE)))

\* routes/chat.ts: the catch around chatStream
RouteCatch(o) == End(Write(Write(o, RouteErrorFrame), DoneFrame(FALSE)))

\* mcpClients built from the names whether or not isYolo is set.
StreamClients_Always == req.mcpServerNames

\* chatStream: mcpClients, one entry per name when isYolo
StreamClients == IF req.isYolo THEN req.mcpServerNames ELSE <<>>

\* --- the accumulator
\* isCompleteJSON of the fragment loop
IsCompleteJSON(a) ==
  LET tr == Trim(a) IN
  tr # <<>> /\ Head(tr) = LB /\ tr[Len(tr)] = RB /\ JSONParse(tr).ok

StateIndex(states, id) ==
  IF \E i \in 1..Len(states) : states[i].id = id
    THEN CHOOSE i \in 1..Len(states) : states[i].id = id
    ELSE 0

\* An accumulation that judges completeness on the fragment just received.
Ingest_FragmentOnly(states, tc) ==
  IF tc.id = "" THEN states
  ELSE LET known == StateIndex(states, tc.id)
           all == IF known # 0 THEN states
                  ELSE Append(states, [id |-> tc.id, name |-> tc.name, arguments |-> <<>>,
                                       index |-> tc.index, argumentsComplete |-> FALSE])
           i == StateIndex(all, tc.id)
           named == IF tc.name # "" THEN [all EXCEPT ![i].name = tc.name] ELSE all IN
       IF tc.hasArgs
         THEN [named EXCEPT ![i].arguments = named[i].arguments \o tc.args,
                            ![i].argumentsComplete = IsCompleteJSON(tc.args)]
         ELSE named

\* The body of `for (const tc of delta.tool_calls)` for one fragment.
Ingest(states, tc) ==
  IF tc.id = "" THEN states
  ELSE LET known == StateIndex(states, tc.id)
           all == IF known # 0 THEN states
                  ELSE Append(states, [id |-> tc.id, name |-> tc.name, arguments |-> <<>>,
                                       index |-> tc.index, argumentsComplete |-> FALSE])
           i == StateIndex(all, tc.id)
           named == IF tc.name # "" THEN [all EXCEPT ![i].name = tc.name] ELSE all IN
       IF tc.hasArgs
         THEN [named EXCEPT ![i].arguments = named[i].arguments \o tc.args,
                            ![i].argumentsComplete =
                               IsCompleteJSON(named[i].arguments \o tc.args)]
         ELSE named

RECURSIVE IngestAll(_, _)
IngestAll(states, frags) ==
  IF frags = <<>> THEN states ELSE IngestAll(Ingest(states, Head(frags)), Tail(frags))

\* messages.find(m => m.role === 'user')?.content
FirstUser(msgs) ==
  IF \E i \in 1..Len(msgs) : msgs[i].role = "user"
    THEN msgs[CHOOSE i \in 1..Len(msgs) :
                /\ msgs[i].role = "user"
                /\ \A j \in 1..(i - 1) : msgs[j].role # "user"].content
    ELSE <<>>

\* The arguments chatStream settles on for one accumulated state (lines
\* 573-595): recovered from the user message when the buffer is incomplete
\* or blank, parsed otherwise; [ok |-> FALSE] when the block throws.
FinalizeArgs(st, msgs) ==
  LET parsedArgs ==
        IF ~st.argumentsComplete \/ Trim(st.arguments) = <<>>
          THEN LET e == extractPathFromMessage(FirstUser(msgs)) IN
               IF FirstUser(msgs) # <<>> /\ e.found /\ e.path # <<>>
                 THEN JSONObject(PathObject(e.path))
                 ELSE JSONFail
          ELSE cleanAndParseJSON(st.arguments) IN
  IF HasPath(parsedArgs) THEN parsedArgs ELSE JSONFail

\* --- inputs of the request and of the model backend
ArgsPath == <<LB, QT, "path", QT, COLON, QT, SL, "x", QT, RB>>   \* {"path":"/x"}
ArgsQuery == <<LB, QT, "q", QT, COLON, QT, "x", QT, RB>>         \* {"q":"x"}
ArgsTruncated == SubSeq(ArgsPath, 1, 8)                           \* {"path":"/x
ArgsNbsp == <<NBSP>> \o ArgsPath
ArgStrings == {<<>>, ArgsPath, ArgsQuery, ArgsTruncated, ArgsNbsp}

CutPoints(a) == {0, Len(a) \div 2, Len(a)}

\* The ways the backend delivers the argument string a in at most n fragments.
RECURSIVE Splits(_, _)
Splits(a, n) ==
  IF n <= 1 THEN {<<a>>}
  ELSE {<<a>>} \cup
       UNION {{<<SubSeq(a, 1, p)>> \o r : r \in Splits(SubSeq(a, p + 1, Len(a)), n - 1)}
                : p \in CutPoints(a)}

UserPath == <<"read", SP, SL, "books", SL, "x">>
UserPlain == <<"read", SP, "x">>
UserWode == <<WODE, "books", ZHONG>>
Conversations ==
  { <<Msg("user", UserPath)>>,
    <<Msg("system", <<"read">>), Msg("user", UserPlain), Msg("user", UserPath)>>,
    <<Msg("user", UserWode)>>,
    <<Msg("system", <<"read">>)>> }

ServerLists == {<<>>, <<"s1">>, <<"s1", "s2">>}

StreamRequests ==
  [stream : {TRUE}, isYolo : BOOLEAN, mcpServerNames : ServerLists, messages : Conversations]

NoResp == [open |-> FALSE, pending |-> <<>>, started |-> {}, n |-> 0]
NoLog == [gen |-> <<>>, resolved |-> <<>>, invoked |-> <<>>, gets |-> <<>>, exit |-> "none"]

Fragment(id, index, name, args) ==
  [id |-> id, index |-> index, name |-> name, hasArgs |-> TRUE, args |-> args]

\* --- chatStream

\* while (loop++ < MAX_TOOL_LOOPS), up to the first await of the turn
streamLoop ==
  /\ pc = "loop"
  /\ loop' = loop + 1
  /\ IF loop < MAX_TOOL_LOOPS
       THEN /\ tools' = <<>>
            /\ toolLists' = <<>>
            /\ pc' = IF req.isYolo /\ Len(StreamClients) > 0 THEN "tools" ELSE "create"
            /\ UNCHANGED log
       ELSE /\ pc' = "done"
            /\ log' = [log EXCEPT !.exit = "exhausted"]
            /\ UNCHANGED <<tools, toolLists>>
  /\ UNCHANGED <<chatOnly, regVars, callVars, req, messages, streamEnded, toolResults,
                 toolCallStates, resp, finishedWithToolCalls, cursor, out>>

\* mcpClients[i].getToolList(): getMCPClientByName, then client.listTools()
getToolList ==
  /\ pc = "tools"
  /\ Len(toolLists) < Len(StreamClients)
  /\ LET s == StreamClients[Len(toolLists) + 1] IN
     \E ok \in BOOLEAN, listed \in BOOLEAN :
       LET g == GetAtomic(s, ok) IN
       /\ Len(g.made) <= MaxClients
       /\ mcpClients' = g.cache
       /\ clients' = g.made
       /\ isConfigInitialized' = TRUE
       /\ toolLists' = Append(toolLists,
            IF g.client = NoClient THEN [ok |-> FALSE, tools |-> <<>>]
            ELSE IF listed THEN [ok |-> TRUE, tools |-> ServerTools(s)]
            ELSE [ok |-> FALSE, tools |-> <<>>])
       /\ log' = [log EXCEPT !.gets = Append(@, [server |-> s, loop |-> loop])]
  /\ UNCHANGED <<chatOnly, mcpConfig, callVars, req, pc, loop, messages, tools, streamEnded,
                 toolResults, toolCallStates, resp, finishedWithToolCalls, cursor, out>>

\* A manifest step that leaves out the servers that did not answer and goes on.
prepareTools_SkipFailed ==
  /\ pc = "tools"
  /\ Len(toolLists) = Len(StreamClients)
  /\ LET oks == SelectSeq(toolLists, LAMBDA l : l.ok) IN
       tools' = ConvertTools([i \in 1..Len(oks) |-> oks[i].tools])
  /\ pc' = "create"
  /\ UNCHANGED <<out, messages, streamEnded, log>>
  /\ UNCHANGED <<chatOnly, regVars, callVars, req, loop, toolLists, toolResults, toolCallStates,
                 resp, finishedWithToolCalls, cursor>>

\* Promise.all settled: the manifest, or the catch of lines 470-475
prepareTools ==
  /\ pc = "tools"
  /\ Len(toolLists) = Len(StreamClients)
  /\ IF \E i \in 1..Len(toolLists) : ~toolLists[i].ok
       THEN LET e == endStream(send(out, streamEnded, ErrorFrame("preparing_tools")),
                               streamEnded, messages, toolResults) IN
            /\ out' = e.out
            /\ messages' = e.messages
            /\ streamEnded' = e.streamEnded
            /\ pc' = "done"
            /\ log' = [log EXCEPT !.exit = "manifest_error"]
            /\ UNCHANGED tools
       ELSE /\ tools' = ConvertTools([i \in 1..Len(toolLists) |-> toolLists[i].tools])
            /\ pc' = "create"
            /\ UNCHANGED <<out, messages, streamEnded, log>>
  /\ UNCHANGED <<chatOnly, regVars, callVars, req, loop, toolLists, toolResults, toolCallStates,
                 resp, finishedWithToolCalls, cursor>>

\* openai.chat.completions.create({ stream: true }): the stream, or the
\* rejection that chatStream lets through to the route's catch
createCompletion ==
  /\ pc = "create"
  /\ \E ok \in BOOLEAN :
       IF ok
         THEN /\ pc' = "read"
              /\ resp' = [NoResp EXCEPT !.open = TRUE]
              /\ finishedWithToolCalls' = FALSE
              /\ log' = [log EXCEPT !.gen = Append(@, [messages |-> messages, tools |-> tools])]
              /\ UNCHANGED out
         ELSE /\ pc' = "done"
              /\ out' = RouteCatch(out)
              /\ log' = [log EXCEPT !.gen = Append(@, [messages |-> messages, tools |-> tools]),
                                    !.exit = "backend_error"]
              /\ UNCHANGED <<resp, finishedWithToolCalls>>
  /\ UNCHANGED <<chatOnly, regVars, callVars, req, loop, messages, tools, toolLists, streamEnded,
                 toolResults, toolCallStates, cursor>>

\* The body of the for-await with a text delta consumed and not forwarded.
ReadChunk_DropText(frags, finish, after) ==
  LET ch == [frags |-> frags, finish |-> finish, n |-> resp.n + 1] IN
  /\ pc = "read"
  /\ resp.open
  /\ out' = IF frags = <<>> /\ finish = "none" THEN out ELSE Write(out, ChunkFrame(ch))
  /\ toolCallStates' = IngestAll(toolCallStates, frags)
  /\ resp' = [after EXCEPT !.n = resp.n + 1]
  /\ IF finish = "tool_calls"
       THEN /\ finishedWithToolCalls' = TRUE
            /\ pc' = "finalize"
            /\ cursor' = 1
       ELSE UNCHANGED <<finishedWithToolCalls, pc, cursor>>
  /\ UNCHANGED <<chatOnly, regVars, callVars, req, loop, messages, tools, toolLists, streamEnded,
                 toolResults, log>>

\* The body of the for-await finalizing the tool calls on any finish_reason.
ReadChunk_AnyFinish(frags, finish, after) ==
  LET ch == [frags |-> frags, finish |-> finish, n |-> resp.n + 1] IN
  /\ pc = "read"
  /\ resp.open
  /\ out' = Write(out, ChunkFrame(ch))
  /\ toolCallStates' = IngestAll(toolCallStates, frags)
  /\ resp' = [after EXCEPT !.n = resp.n + 1]
  /\ IF finish # "none"
       THEN /\ finishedWithToolCalls' = TRUE
            /\ pc' = "finalize"
            /\ cursor' = 1
       ELSE UNCHANGED <<finishedWithToolCalls, pc, cursor>>
  /\ UNCHANGED <<chatOnly, regVars, callVars, req, loop, messages, tools, toolLists, streamEnded,
                 toolResults, log>>

\* The body of `for await (const chunk of resp)` for one chunk.
ReadChunk(frags, finish, after) ==
  LET ch == [frags |-> frags, finish |-> finish, n |-> resp.n + 1] IN
  /\ pc = "read"
  /\ resp.open
  /\ out' = Write(out, ChunkFrame(ch))
  /\ toolCallStates' = IngestAll(toolCallStates, frags)
  /\ resp' = [after EXCEPT !.n = resp.n + 1]
  /\ IF finish = "tool_calls"
       THEN /\ finishedWithToolCalls' = TRUE
            /\ pc' = "finalize"
            /\ cursor' = 1
       ELSE UNCHANGED <<finishedWithToolCalls, pc, cursor>>
  /\ UNCHANGED <<chatOnly, regVars, callVars, req, loop, messages, tools, toolLists, streamEnded,
                 toolResults, log>>

\* a text delta
readText ==
  /\ resp.n = 0
  /\ ReadChunk(<<>>, "none", resp)

\* the first fragment of a tool call: id, name and the first piece of its arguments
readFirstFragment ==
  /\ "c1" \notin resp.started
  /\ \E a \in ArgStrings : \E sp \in Splits(a, MaxFrags) :
       ReadChunk(<<Fragment("c1", 0, "read", Head(sp))>>, "none",
                 [resp EXCEPT !.started = @ \cup {"c1"}, !.pending = Tail(sp)])

\* a later fragment of the call: the next piece, with or without the id
readNextFragment ==
  /\ resp.pending # <<>>
  /\ \E id \in {"c1", ""} :
       ReadChunk(<<Fragment(id, 0, "", Head(resp.pending))>>, "none",
                 [resp EXCEPT !.pending = Tail(@)])

\* a second tool call of the same turn, delivered whole
readSecondCall ==
  /\ "c1" \in resp.started
  /\ "c2" \notin resp.started
  /\ resp.pending = <<>>
  /\ ReadChunk(<<Fragment("c2", 1, "search", ArgsPath)>>, "none",
               [resp EXCEPT !.started = @ \cup {"c2"}])

\* the chunk that carries finish_reason
readFinish ==
  /\ resp.pending = <<>>
  /\ \E finish \in {"stop", "tool_calls"} :
       ReadChunk(<<>>, finish, [resp EXCEPT !.open = (finish = "tool_calls")])

\* reading the stream throws: the route's catch
readThrows ==
  /\ pc = "read"
  /\ pc' = "done"
  /\ out' = RouteCatch(out)
  /\ log' = [log EXCEPT !.exit = "backend_error"]
  /\ UNCHANGED <<chatOnly, regVars, callVars, req, loop, messages, tools, toolLists, streamEnded,
                 toolResults, toolCallStates, resp, finishedWithToolCalls, cursor>>

\* One round of `for (const state of toolCallStates.values())` after the
\* chunk with finish_reason 'tool_calls': the arguments are settled, then
\* mcpClients[0].invokeTool(state.name, JSON.stringify(parsedArgs)) is awaited.
finalizeCall ==
  /\ pc = "finalize"
  /\ cursor <= Len(toolCallStates)
  /\ cursor' = cursor + 1
  /\ LET st == toolCallStates[cursor]
         a == FinalizeArgs(st, messages) IN
     IF ~a.ok
       THEN \* 'No valid path found in arguments or user message', or the parse error
            /\ out' = send(out, streamEnded, ToolErrorFrame("arguments", st.id))
            /\ UNCHANGED <<regVars, toolResults, log>>
     ELSE IF Len(StreamClients) = 0
       THEN \* mcpClients[0] is undefined: the TypeError is caught at line 606
            /\ out' = send(out, streamEnded, ToolErrorFrame("no_client_object", st.id))
            /\ log' = [log EXCEPT !.resolved = Append(@, [id |-> st.id, args |-> a.obj])]
            /\ UNCHANGED <<regVars, toolResults>>
     ELSE \E ok \in BOOLEAN, called \in BOOLEAN :
            LET s == StreamClients[1]
                g == GetAtomic(s, ok)
                sent == JSONParse(JSONStringify(a.obj))
                got == [log EXCEPT !.resolved = Append(@, [id |-> st.id, args |-> a.obj]),
                                   !.gets = Append(@, [server |-> s, loop |-> loop])] IN
            /\ Len(g.made) <= MaxClients
            /\ mcpClients' = g.cache
            /\ clients' = g.made
            /\ isConfigInitialized' = TRUE
            /\ UNCHANGED mcpConfig
            /\ IF g.client = NoClient
                 THEN /\ out' = send(out, streamEnded, ToolErrorFrame("no_client", st.id))
                      /\ log' = got
                      /\ UNCHANGED toolResults
               ELSE IF ~sent.ok
                 THEN /\ out' = send(out, streamEnded, ToolErrorFrame("invalid_arguments", st.id))
                      /\ log' = got
                      /\ UNCHANGED toolResults
               ELSE /\ log' = [got EXCEPT !.invoked = Append(@,
                                 [server |-> s, name |-> st.name, args |-> sent.obj,
                                  id |-> st.id, ok |-> called])]
                    /\ IF called
                         THEN /\ out' = send(out, streamEnded, ToolResultFrame(st.name, st.id))
                              /\ toolResults' = IF ~streamEnded
                                                  THEN Append(toolResults, [name |-> st.name, id |-> st.id])
                                                  ELSE toolResults
                         ELSE /\ out' = send(out, streamEnded, ToolErrorFrame("tool_failed", st.id))
                              /\ UNCHANGED toolResults
  /\ UNCHANGED <<chatOnly, callVars, req, pc, loop, messages, tools, toolLists, streamEnded,
                 toolCallStates, resp, finishedWithToolCalls>>

\* A tool turn that goes round the while loop again instead of returning.
finishToolTurn_NextTurn ==
  /\ pc = "finalize"
  /\ cursor > Len(toolCallStates)
  /\ LET e == endStream(out, streamEnded, messages, toolResults) IN
       /\ out' = e.out
       /\ messages' = e.messages
       /\ streamEnded' = e.streamEnded
  /\ pc' = "loop"
  /\ log' = [log EXCEPT !.exit = "tool_turn"]
  /\ UNCHANGED <<chatOnly, regVars, callVars, req, loop, tools, toolLists, toolResults,
                 toolCallStates, resp, finishedWithToolCalls, cursor>>

\* After the last state: if (!streamEnded) endStream(); return
finishToolTurn ==
  /\ pc = "finalize"
  /\ cursor > Len(toolCallStates)
  /\ LET e == endStream(out, streamEnded, messages, toolResults) IN
       /\ out' = e.out
       /\ messages' = e.messages
       /\ streamEnded' = e.streamEnded
  /\ pc' = "done"
  /\ log' = [log EXCEPT !.exit = "tool_turn"]
  /\ UNCHANGED <<chatOnly, regVars, callVars, req, loop, tools, toolLists, toolResults,
                 toolCallStates, resp, finishedWithToolCalls, cursor>>

\* The stream of chunks ends and the code after the for-await runs (lines
\* 639-753).  toolCalls, the array the last branch iterates, is never pushed to.
streamExhausted ==
  /\ pc = "read"
  /\ resp.pending = <<>>
  /\ IF ~finishedWithToolCalls
       THEN /\ out' = End(Write(out, DoneFrame(TRUE)))
            /\ pc' = "done"
            /\ log' = [log EXCEPT !.exit = "stop"]
            /\ UNCHANGED messages
     ELSE IF ~req.isYolo
       THEN /\ out' = End(Write(out, DoneFrame(TRUE)))
            /\ pc' = "done"
            /\ log' = [log EXCEPT !.exit = "confirm"]
            /\ UNCHANGED messages
     ELSE IF Len(StreamClients) = 0
       THEN /\ out' = End(Write(Write(out, ErrorFrame("no_servers")), DoneFrame(TRUE)))
            /\ pc' = "done"
            /\ log' = [log EXCEPT !.exit = "no_servers"]
            /\ UNCHANGED messages
     ELSE /\ messages' = messages \o <<AssistantMsg(<<>>)>> \o ToolMsgs(toolResults)
          /\ out' = Write(End(Write(out, DoneFrame(TRUE))), LoopInfoFrame)
          /\ pc' = "loop"
          /\ UNCHANGED log
  /\ UNCHANGED <<chatOnly, regVars, callVars, req, loop, tools, toolLists, streamEnded, toolResults,
                 toolCallStates, resp, finishedWithToolCalls, cursor>>

\* The caller disconnects: the response handed to chatStream is closed from
\* outside and delivers nothing more.  Nothing in chatStream listens for it,
\* so streamEnded and the position of the handler are unchanged.
Close(o) == [o EXCEPT !.ended = TRUE]
callerCloses ==
  /\ req.stream
  /\ pc # "done"
  /\ ~out.ended
  /\ out' = Close(out)
  /\ UNCHANGED <<chatOnly, regVars, callVars, req, pc, loop, messages, tools, toolLists,
                 streamEnded, toolResults, toolCallStates, resp, finishedWithToolCalls,
                 cursor, log>>

\* --- chat (non-streaming)

Call(id, name, args) == [id |-> id, name |-> name, arguments |-> args, hasFunction |-> TRUE]
CallLists ==
  { <<Call("c1", "read", ArgsPath)>>,
    <<Call("c1", "read", ArgsPath), Call("c2", "list", ArgsQuery)>>,
    <<Call("c1", "search", ArgsPath)>>,
    <<Call("c1", "read", ArgsTruncated)>>,
    <<[Call("c1", "", <<>>) EXCEPT !.hasFunction = FALSE]>> }
\* response.choices[0]: none, or a finish_reason and message.tool_calls
NoChoice == [present |-> FALSE, finish |-> "none", hasCalls |-> FALSE, calls |-> <<>>]
Choices ==
  {NoChoice}
    \cup {[present |-> TRUE, finish |-> "stop", hasCalls |-> FALSE, calls |-> <<>>],
          [present |-> TRUE, finish |-> "tool_calls", hasCalls |-> FALSE, calls |-> <<>>]}
    \cup {[present |-> TRUE, finish |-> "tool_calls", hasCalls |-> TRUE, calls |-> cl] :
            cl \in CallLists}

ChatRequests ==
  [stream : {FALSE}, isYolo : BOOLEAN, mcpServerNames : ServerLists,
   messages : {<<Msg("user", UserPath)>>}]

\* tools.findIndex(t => t.function.name === name), counted from 1; 0 for -1
FindIndex(ts, name) ==
  IF \E i \in 1..Len(ts) : ts[i] = name
    THEN CHOOSE i \in 1..Len(ts) : ts[i] = name /\ \A j \in 1..(i - 1) : ts[j] # name
    ELSE 0

\* routes/chat.ts: the outer catch, reply.code(statusCode).send({ error: true, ... })
RouteError(why) == [kind |-> "error", why |-> why]
RouteReply == [kind |-> "response", why |-> ""]
NoReply == [kind |-> "none", why |-> ""]

\* for (const name of mcpServerNames): await getMCPClientByName(name); a
\* null client is skipped
chatGetClient ==
  /\ pc = "chatInit"
  /\ req.isYolo
  /\ cursor <= Len(req.mcpServerNames)
  /\ cursor' = cursor + 1
  /\ LET s == req.mcpServerNames[cursor] IN
     \E ok \in BOOLEAN :
       LET g == GetAtomic(s, ok) IN
       /\ Len(g.made) <= MaxClients
       /\ mcpClients' = g.cache
       /\ clients' = g.made
       /\ isConfigInitialized' = TRUE
       /\ chatClients' = IF g.client = NoClient THEN chatClients
                         ELSE Append(chatClients, [name |-> s, client |-> g.client])
       /\ log' = [log EXCEPT !.gets = Append(@, [server |-> s, loop |-> loop])]
  /\ UNCHANGED <<streamOnly, mcpConfig, callVars, req, pc, loop, messages, tools,
                 toolLists, toolResults, choice, reply>>

\* The loop of chat with `loop++ <= MAX_TOOL_LOOPS`.
chatLoop_OneMore ==
  /\ \/ pc = "chatLoop"
     \/ pc = "chatInit" /\ (~req.isYolo \/ cursor > Len(req.mcpServerNames))
  /\ loop' = loop + 1
  /\ tools' = <<>>
  /\ toolLists' = <<>>
  /\ pc' = IF loop > MAX_TOOL_LOOPS THEN "chatFinal"
           ELSE IF req.isYolo /\ Len(chatClients) > 0 THEN "chatTools"
           ELSE "chatCreate"
  /\ UNCHANGED <<streamOnly, regVars, callVars, req, messages, toolResults, cursor,
                 chatClients, choice, reply, log>>

\* while (loop++ < MAX_TOOL_LOOPS)
chatLoop ==
  /\ \/ pc = "chatLoop"
     \/ pc = "chatInit" /\ (~req.isYolo \/ cursor > Len(req.mcpServerNames))
  /\ loop' = loop + 1
  /\ tools' = <<>>
  /\ toolLists' = <<>>
  /\ pc' = IF loop >= MAX_TOOL_LOOPS THEN "chatFinal"
           ELSE IF req.isYolo /\ Len(chatClients) > 0 THEN "chatTools"
           ELSE "chatCreate"
  /\ UNCHANGED <<streamOnly, regVars, callVars, req, messages, toolResults, cursor,
                 chatClients, choice, reply, log>>

\* client.getToolList(): client.listTools() of a client obtained before the loop
chatListTools ==
  /\ pc = "chatTools"
  /\ Len(toolLists) < Len(chatClients)
  /\ \E listed \in BOOLEAN :
       toolLists' = Append(toolLists,
         IF listed THEN [ok |-> TRUE, tools |-> ServerTools(chatClients[Len(toolLists) + 1].name)]
         ELSE [ok |-> FALSE, tools |-> <<>>])
  /\ UNCHANGED <<streamOnly, regVars, callVars, req, pc, loop, messages, tools,
                 toolResults, cursor, chatClients, choice, reply, log>>

\* Promise.all settled: the manifest, or `throw new Error('Error preparing tools: ...')`
chatPrepareTools ==
  /\ pc = "chatTools"
  /\ Len(toolLists) = Len(chatClients)
  /\ IF \E i \in 1..Len(toolLists) : ~toolLists[i].ok
       THEN /\ pc' = "done"
            /\ reply' = RouteError("preparing_tools")
            /\ log' = [log EXCEPT !.exit = "manifest_error"]
            /\ UNCHANGED tools
       ELSE /\ tools' = ConvertTools([i \in 1..Len(toolLists) |-> toolLists[i].tools])
            /\ pc' = "chatCreate"
            /\ UNCHANGED <<reply, log>>
  /\ UNCHANGED <<streamOnly, regVars, callVars, req, loop, messages, toolLists,
                 toolResults, cursor, chatClients, choice>>

\* openai.chat.completions.create({ model, messages, tools? }) and the
\* decision on its first choice (lines 229-248)
chatCreate ==
  /\ pc = "chatCreate"
  /\ \E ok \in BOOLEAN, ch \in Choices :
       LET gen == [log EXCEPT !.gen = Append(@, [messages |-> messages, tools |-> tools])] IN
       IF ~ok
         THEN /\ pc' = "done"
              /\ reply' = RouteError("backend")
              /\ log' = [gen EXCEPT !.exit = "backend_error"]
              /\ UNCHANGED <<choice, toolResults, cursor>>
       ELSE IF ~ch.present
         THEN /\ pc' = "chatFinal"
              /\ choice' = ch
              /\ log' = gen
              /\ UNCHANGED <<reply, toolResults, cursor>>
       ELSE IF ch.finish # "tool_calls" \/ ~ch.hasCalls
         THEN /\ pc' = "done"
              /\ choice' = ch
              /\ reply' = RouteReply
              /\ log' = [gen EXCEPT !.exit = "stop"]
              /\ UNCHANGED <<toolResults, cursor>>
       ELSE /\ pc' = "chatCalls"
            /\ choice' = ch
            /\ toolResults' = <<>>
            /\ cursor' = 1
            /\ log' = gen
            /\ UNCHANGED reply
  /\ UNCHANGED <<streamOnly, regVars, callVars, req, loop, messages, tools, toolLists,
                 chatClients>>

\* One round of `for (const call of toolCalls)` (lines 250-266)
chatCall ==
  /\ pc = "chatCalls"
  /\ cursor <= Len(choice.calls)
  /\ cursor' = cursor + 1
  /\ LET c == choice.calls[cursor]
         clientIndex == FindIndex(tools, c.name) IN
     IF ~c.hasFunction
       THEN UNCHANGED <<pc, reply, toolResults, log>>
     ELSE IF clientIndex = 0 \/ clientIndex > Len(chatClients)
       THEN /\ pc' = "done"
            /\ reply' = RouteError("no_client_for_tool")
            /\ log' = [log EXCEPT !.exit = "tool_error"]
            /\ UNCHANGED toolResults
     ELSE IF ~JSONParse(c.arguments).ok
       THEN \* JSON.parse(args) throws inside invokeTool
            /\ pc' = "done"
            /\ reply' = RouteError("tool_execution_failed")
            /\ log' = [log EXCEPT !.exit = "tool_error"]
            /\ UNCHANGED toolResults
     ELSE \E called \in BOOLEAN :
            LET inv == [server |-> chatClients[clientIndex].name, name |-> c.name,
                        args |-> JSONParse(c.arguments).obj, id |-> c.id, ok |-> called] IN
            IF called
              THEN /\ toolResults' = Append(toolResults, [name |-> c.name, id |-> c.id])
                   /\ log' = [log EXCEPT !.invoked = Append(@, inv)]
                   /\ UNCHANGED <<pc, reply>>
              ELSE /\ pc' = "done"
                   /\ reply' = RouteError("tool_execution_failed")
                   /\ log' = [log EXCEPT !.invoked = Append(@, inv), !.exit = "tool_error"]
                   /\ UNCHANGED toolResults
  /\ UNCHANGED <<streamOnly, regVars, callVars, req, loop, messages, tools, toolLists,
                 chatClients, choice>>

\* After the last call: the assistant message and the tool messages are pushed
chatAppend ==
  /\ pc = "chatCalls"
  /\ cursor > Len(choice.calls)
  /\ messages' = messages \o <<AssistantMsg(CallIds(choice.calls))>> \o ToolMsgs(toolResults)
  /\ pc' = "chatLoop"
  /\ UNCHANGED <<streamOnly, regVars, callVars, req, loop, tools, toolLists, toolResults,
                 cursor, chatClients, choice, reply, log>>

\* The loop is left and the last answer of the loop is returned as it is.
chatFinal_NoCall ==
  /\ pc = "chatFinal"
  /\ pc' = "done"
  /\ reply' = RouteReply
  /\ log' = [log EXCEPT !.exit = "exhausted"]
  /\ UNCHANGED <<streamOnly, regVars, callVars, req, loop, messages, tools, toolLists,
                 toolResults, cursor, chatClients, choice>>

\* The loop is left: the last create, without tools
chatFinal ==
  /\ pc = "chatFinal"
  /\ pc' = "done"
  /\ \E ok \in BOOLEAN :
       /\ reply' = IF ok THEN RouteReply ELSE RouteError("backend")
       /\ log' = [log EXCEPT !.gen = Append(@, [messages |-> messages, tools |-> <<>>]),
                             !.exit = IF ok THEN "exhausted" ELSE "backend_error"]
  /\ UNCHANGED <<streamOnly, regVars, callVars, req, loop, messages, tools, toolLists,
                 toolResults, cursor, chatClients, choice>>

\* --- the request

\* No request is in progress.
NoRequest == [stream |-> FALSE, isYolo |-> FALSE, mcpServerNames |-> <<>>, messages |-> <<>>]

\* The route has read the request and called chat or chatStream, which has
\* run to its loop: messages = [...initMsgs], loop = 0, streamEnded = false.
InitRequest(r) ==
  /\ req = r
  /\ loop = 0
  /\ messages = r.messages
  /\ tools = <<>>
  /\ toolLists = <<>>
  /\ streamEnded = FALSE
  /\ toolResults = <<>>
  /\ toolCallStates = <<>>
  /\ resp = NoResp
  /\ finishedWithToolCalls = FALSE
  /\ cursor = 1
  /\ chatClients = <<>>
  /\ choice = NoChoice
  /\ reply = NoReply
  /\ out = [frames |-> <<>>, ended |-> FALSE, late |-> <<>>]
  /\ log = NoLog

Init ==
  /\ mcpConfig \in {[s \in Servers |-> "cfgA"], [s \in Servers |-> IF s = "s1" THEN NoCfg ELSE "cfgA"]}
  /\ isConfigInitialized = TRUE
  /\ mcpClients = [s \in Servers |-> NoClient]
  /\ clients = <<>>
  /\ call = [c \in Callers |-> Idle]
  /\ ret = [c \in Callers |-> NoClient]
  /\ \E r \in StreamRequests \cup ChatRequests : InitRequest(r)
  /\ pc = IF req.stream THEN "loop" ELSE "chatInit"

Next ==
  \/ streamLoop
  \/ getToolList
  \/ prepareTools
  \/ createCompletion
  \/ readText
  \/ readFirstFragment
  \/ readNextFragment
  \/ readSecondCall
  \/ readFinish
  \/ readThrows
  \/ streamExhausted
  \/ finalizeCall
  \/ finishToolTurn
  \/ chatGetClient
  \/ chatLoop
  \/ chatListTools
  \/ chatPrepareTools
  \/ chatCreate
  \/ chatCall
  \/ chatAppend
  \/ chatFinal

Spec == Init /\ [][Next]_vars

\* --- the registry alone, under callers that interleave

\* The server has been started: index.ts initServer loads mcp_servers.json
\* and calls initializeMCP before it listens.
InitRegistry ==
  /\ mcpConfig \in [Servers -> Cfgs \cup {NoCfg}]
  /\ isConfigInitialized = TRUE
  /\ mcpClients = [s \in Servers |-> NoClient]
  /\ clients = <<>>
  /\ call = [c \in Callers |-> Idle]
  /\ ret = [c \in Callers |-> NoClient]
  /\ InitRequest(NoRequest)
  /\ pc = "done"

NextRegistry ==
  \/ \E c \in Callers, s \in Servers : getMCPClientByName(c, s)
  \/ \E c \in Callers : getConnected(c)
  \/ \E c \in Callers : getConnectFailed(c)
  \/ \E c \in Callers, s \in Servers, cfg \in Cfgs : updateMCPServer(c, s, cfg)
  \/ \E c \in Callers : updateConnected(c)
  \/ \E c \in Callers : updateConnectFailed(c)
  \/ \E s \in Servers : clearMCPClientCache(s)
  \/ clearAllMCPClientCache

SpecRegistry == InitRegistry /\ [][NextRegistry]_vars

\* --- one streaming request in autonomous mode whose caller may disconnect
InitCancel ==
  /\ Init
  /\ req.stream
  /\ req.isYolo
  /\ req.mcpServerNames = <<"s1">>
  /\ req.messages = <<Msg("user", UserPath)>>
  /\ mcpConfig = [s \in Servers |-> "cfgA"]

NextCancel ==
  \/ streamLoop
  \/ getToolList
  \/ prepareTools
  \/ createCompletion
  \/ readText
  \/ readFirstFragment
  \/ readNextFragment
  \/ readSecondCall
  \/ readFinish
  \/ readThrows
  \/ finalizeCall
  \/ finishToolTurn
  \/ streamExhausted
  \/ callerCloses

SpecCancel == InitCancel /\ [][NextCancel]_vars

-----------------------------------------------------------------------------
(* The plain streaming providers: providers/deepseek.ts and                   *)
(* providers/ollama.ts (chatStream), behind the same route.                   *)

Providers == {"deepseek", "ollama"}
MaxDeltas == 3
\* chunk.choices[0].delta.content / chunk.message.content; "" is no text
Deltas == {"", "Hel", "lo"}

ProviderRequests ==
  [provider : Providers, stream : {TRUE}, isYolo : {FALSE},
   mcpServerNames : {<<>>}, messages : {<<>>}]

\* { model, created_at, message: { role: 'assistant', content }, done: false }
EventFrame(content) == [Frame("event") EXCEPT !.msg = content]
\* handleError's { error: true, message }
ProviderErrorFrame == Frame("provider_error")

\* endStream of both providers: the flag is set before the writes
providerEndStream(o, ended) ==
  IF ~ended
    THEN [out |-> End(Write(o, DoneFrame(FALSE))), streamEnded |-> TRUE]
    ELSE [out |-> o, streamEnded |-> ended]

\* A handleError that writes the terminal marker before the error frame.
handleError_DoneFirst(o, ended) ==
  IF ~ended
    THEN [out |-> End(Write(Write(o, DoneFrame(FALSE)), ProviderErrorFrame)),
          streamEnded |-> TRUE]
    ELSE [out |-> o, streamEnded |-> ended]

\* handleError of both providers
handleError(o, ended) ==
  IF ~ended
    THEN [out |-> End(Write(Write(o, ProviderErrorFrame), DoneFrame(FALSE))),
          streamEnded |-> TRUE]
    ELSE [out |-> o, streamEnded |-> ended]

\* OllamaProvider's writeToStream(data)
writeToStream(o, ended, f) == IF ~ended THEN Write(o, f) ELSE o

providerUnchanged == <<chatOnly, regVars, callVars, req, loop, messages, tools, toolLists,
                       toolResults, toolCallStates, finishedWithToolCalls, cursor>>

\* The generation call resolves to a delta stream.
providerCreate ==
  /\ pc = "create"
  /\ pc' = "read"
  /\ resp' = [NoResp EXCEPT !.open = TRUE]
  /\ UNCHANGED <<providerUnchanged, streamEnded, out, log>>

\* The generation call rejects.  DeepSeek awaits it outside the inner try:
\* the error is rethrown to the route.  Ollama awaits it inside: handleError.
providerCreateThrows ==
  /\ pc = "create"
  /\ pc' = "done"
  /\ IF req.provider = "deepseek"
       THEN /\ out' = RouteCatch(out)
            /\ UNCHANGED streamEnded
       ELSE LET e == handleError(out, streamEnded) IN
              /\ out' = e.out
              /\ streamEnded' = e.streamEnded
  /\ log' = [log EXCEPT !.exit = "backend_error"]
  /\ UNCHANGED <<providerUnchanged, resp>>

\* One delta of the stream.  DeepSeek
\* writes an event only for non-empty content, Ollama for every delta.  A
\* loop body entered with streamEnded set breaks to the endStream() call.
providerReadDelta ==
  /\ pc = "read"
  /\ resp.n < MaxDeltas
  /\ \E content \in Deltas :
       IF streamEnded
         THEN /\ pc' = "done"
              /\ UNCHANGED <<out, streamEnded, resp, log>>
         ELSE /\ resp' = [resp EXCEPT !.n = @ + 1]
              /\ out' = IF req.provider = "deepseek"
                          THEN IF content # "" THEN Write(out, EventFrame(content)) ELSE out
                          ELSE writeToStream(out, streamEnded, EventFrame(content))
              /\ UNCHANGED <<pc, streamEnded, log>>
  /\ UNCHANGED providerUnchanged

\* The delta stream throws part-way (or a delta lacks the field that is read).
providerReadThrows ==
  /\ pc = "read"
  /\ LET e == handleError(out, streamEnded) IN
       /\ out' = e.out
       /\ streamEnded' = e.streamEnded
  /\ pc' = "done"
  /\ log' = [log EXCEPT !.exit = "stream_error"]
  /\ UNCHANGED <<providerUnchanged, resp>>

\* The delta stream completes.
providerExhausted ==
  /\ pc = "read"
  /\ LET e == providerEndStream(out, streamEnded) IN
       /\ out' = e.out
       /\ streamEnded' = e.streamEnded
  /\ pc' = "done"
  /\ log' = [log EXCEPT !.exit = "completed"]
  /\ UNCHANGED <<providerUnchanged, resp>>

InitProviders ==
  /\ mcpConfig = [s \in Servers |-> "cfgA"]
  /\ isConfigInitialized = TRUE
  /\ mcpClients = [s \in Servers |-> NoClient]
  /\ clients = <<>>
  /\ call = [c \in Callers |-> Idle]
  /\ ret = [c \in Callers |-> NoClient]
  /\ \E r \in ProviderRequests : InitRequest(r)
  /\ pc = "create"

NextProviders ==
  \/ providerCreate
  \/ providerCreateThrows
  \/ providerReadDelta
  \/ providerReadThrows
  \/ providerExhausted

SpecProviders == InitProviders /\ [][NextProviders]_vars

-----------------------------------------------------------------------------
(* Properties                                                                 *)

Frames(type) == {i \in 1..Len(out.frames) : out.frames[i].type = type}
Finished == pc = "done"

\* C1: a streaming request that has finished has written exactly one terminal
\* [DONE] frame, whatever its exit path; one that is running has written none.
C1_OneDone ==
  req.stream =>
    Cardinality(Frames("done")) = (IF Finished THEN 1 ELSE 0)

\* A request that stopped on a backend failure after chunks were forwarded.
C1_Witness ==
  /\ req.stream
  /\ Finished
  /\ log.exit = "backend_error"
  /\ Frames("chunk") # {}
  /\ Cardinality(Frames("done")) = 1

\* C2: no request makes more than MAX_TOOL_LOOPS + 1 generation calls, in
\* chat and in chatStream, whatever the backend answers.
C2_BoundedCalls == Len(log.gen) <= MAX_TOOL_LOOPS + 1

\* chat, every answer of the loop a tool_calls answer: five calls with the
\* loop's manifest and the sixth without.
C2_Witness ==
  /\ ~req.stream
  /\ Finished
  /\ loop = MAX_TOOL_LOOPS + 1
  /\ Len(log.gen) = MAX_TOOL_LOOPS + 1
  /\ log.exit = "exhausted"

\* Clients of server s that getMCPClientByName constructed and that no
\* updateMCPServer or clearMCPClientCache of s has followed.
Current(s) ==
  {h \in DOMAIN clients :
     clients[h].server = s /\ clients[h].by = "get" /\ ~clients[h].superseded}

\* C3: the calls of getMCPClientByName(s) that no update or invalidation of s
\* separates all return the same handle, and a handle that was returned
\* before an update of s is not returned after it.
C3_SameHandle ==
  /\ \A s \in Servers : Cardinality({h \in Current(s) : clients[h].returned}) <= 1
  /\ \A h \in DOMAIN clients : ~clients[h].reissued

\* C4: at most one client per server is connecting or connected at any
\* time, under every interleaving of getMCPClientByName calls: a second
\* caller does not spawn a second process.
C4_OneLive ==
  \A s \in Servers :
    Cardinality({h \in Current(s) : clients[h].state \in {"connecting", "connected"}}) <= 1

\* The turn of a streaming request ended with finish_reason 'tool_calls'
\* and the request has returned.
AfterToolCalls == req.stream /\ finishedWithToolCalls /\ Finished

\* C5: with isYolo off, a streamed turn that ends with finish_reason
\* 'tool_calls' invokes no tool and writes no tool_result frame.
C5_NothingExecuted ==
  (req.stream /\ ~req.isYolo /\ finishedWithToolCalls) =>
    /\ log.invoked = <<>>
    /\ Frames("tool_result") = {}

\* isYolo off, servers named, and a call whose arguments were settled.
C5_Witness ==
  /\ AfterToolCalls
  /\ ~req.isYolo
  /\ req.mcpServerNames # <<>>
  /\ log.resolved # <<>>
  /\ log.invoked = <<>>

\* C6: with isYolo off, a streamed turn that ends with finish_reason
\* 'tool_calls' writes exactly one need_confirm frame, and the frame after
\* it is the terminal frame.
C6_NeedConfirm ==
  (AfterToolCalls /\ ~req.isYolo) =>
    \E i \in Frames("need_confirm") :
      /\ Frames("need_confirm") = {i}
      /\ i < Len(out.frames)
      /\ out.frames[i + 1].type = "done"

\* C7: with isYolo on and no server named, a streamed turn that ends with
\* finish_reason 'tool_calls' writes exactly one error frame and then the
\* terminal frame, invokes nothing and writes no tool_error or tool_result.
C7_ConfigurationError ==
  (AfterToolCalls /\ req.isYolo /\ req.mcpServerNames = <<>>) =>
    /\ \E i \in Frames("error") :
         /\ Frames("error") = {i}
         /\ i < Len(out.frames)
         /\ out.frames[i + 1].type = "done"
    /\ log.invoked = <<>>
    /\ Frames("tool_error") = {}
    /\ Frames("tool_result") = {}

HasToolMsg(msgs, id) == \E k \in 1..Len(msgs) : msgs[k].role = "tool" /\ msgs[k].id = id

\* C8: when one invocation of a turn failed and another succeeded, the
\* stream holds a tool_error and a tool_result frame, and a generation call
\* follows whose Conversation has a tool message for each of the two calls.
C8_BothReported ==
  Finished =>
    \A i, j \in 1..Len(log.invoked) :
      (log.invoked[i].ok /\ ~log.invoked[j].ok /\ log.invoked[i].id # log.invoked[j].id) =>
        /\ req.stream => (Frames("tool_result") # {} /\ Frames("tool_error") # {})
        /\ \E g \in 1..Len(log.gen) :
             /\ HasToolMsg(log.gen[g].messages, log.invoked[i].id)
             /\ HasToolMsg(log.gen[g].messages, log.invoked[j].id)

\* The arguments fragments the backend delivered for the call at index idx,
\* concatenated in the order of the chunks.
RECURSIVE FragArgs(_, _)
FragArgs(frags, idx) ==
  IF frags = <<>> THEN <<>>
  ELSE (IF Head(frags).index = idx /\ Head(frags).hasArgs THEN Head(frags).args ELSE <<>>)
         \o FragArgs(Tail(frags), idx)
RECURSIVE Delivered(_, _)
Delivered(frames, idx) ==
  IF frames = <<>> THEN <<>>
  ELSE FragArgs(Head(frames).chunk.frags, idx) \o Delivered(Tail(frames), idx)

ErrorsFor(id) == {i \in Frames("tool_error") : out.frames[i].call = id}
ResolvedWith(id, args) ==
  \E k \in 1..Len(log.resolved) : log.resolved[k].id = id /\ log.resolved[k].args = args

\* C9: a call whose delivered arguments fragments concatenate to a JSON
\* object is resolved with the parse of that concatenation.
C9_ParseOfConcatenation ==
  AfterToolCalls =>
    \A k \in 1..Len(toolCallStates) :
      LET st == toolCallStates[k]
          whole == JSONParse(Delivered(out.frames, st.index)) IN
      (whole.ok /\ whole.kind = "object") => ResolvedWith(st.id, whole.obj)

\* The content of the most recent user message of a Conversation: the
\* message a tool call of the turn answers.
LastUser(msgs) ==
  IF \E i \in 1..Len(msgs) : msgs[i].role = "user"
    THEN msgs[CHOOSE i \in 1..Len(msgs) :
                /\ msgs[i].role = "user"
                /\ \A j \in (i + 1)..Len(msgs) : msgs[j].role # "user"].content
    ELSE <<>>

\* C10: a call finalized with an empty arguments buffer is resolved with
\* {path: token} when the user message that led to the call holds an
\* extractable path token, and gets a tool_error frame when it holds none.
C10_EmptyBuffer ==
  AfterToolCalls =>
    \A k \in 1..Len(toolCallStates) :
      LET st == toolCallStates[k]
          e == extractPathFromMessage(LastUser(req.messages)) IN
      st.arguments = <<>> =>
        IF e.found /\ e.path # <<>>
          THEN ResolvedWith(st.id, PathObject(e.path))
          ELSE ErrorsFor(st.id) # {}

Resolved(id) == \E k \in 1..Len(log.resolved) : log.resolved[k].id = id

\* C11: a tool is invoked for a call only with arguments that a parse or a
\* recovery settled for that call, and a call for which neither succeeded
\* gets a tool_error frame that names it.
C11_NoHalfBuilt ==
  req.stream =>
    /\ \A k \in 1..Len(log.invoked) :
         ResolvedWith(log.invoked[k].id, log.invoked[k].args)
    /\ AfterToolCalls =>
         \A k \in 1..Len(toolCallStates) :
           LET st == toolCallStates[k] IN
           ~Resolved(st.id) =>
             \E i \in ErrorsFor(st.id) : out.frames[i].name = st.name

\* The raw-chunk frames of the outward stream, in the order written.
ChunkSeq == SelectSeq(out.frames, LAMBDA f : f.type = "chunk")

\* C12: at every moment the raw-chunk frames written are the chunks received
\* from the backend so far, one frame per chunk and in the order received.
C12_InOrder ==
  req.stream =>
    /\ Len(ChunkSeq) = resp.n
    /\ \A i \in 1..Len(ChunkSeq) : ChunkSeq[i].chunk.n = i

\* A text delta, a tool-call fragment and a finish chunk were forwarded.
C12_Witness ==
  /\ req.stream
  /\ resp.n = 3
  /\ Len(ChunkSeq) = 3
  /\ ChunkSeq[1].chunk.frags = <<>>
  /\ ChunkSeq[2].chunk.frags # <<>>
  /\ ChunkSeq[3].chunk.finish = "tool_calls"

\* Every call of the finished streamed turn was dealt with: its arguments
\* were settled, or it has a tool_error frame, and it has one at most.
EachCallHandled ==
  \A k \in 1..Len(toolCallStates) :
    LET st == toolCallStates[k] IN
    /\ Resolved(st.id) \/ ErrorsFor(st.id) # {}
    /\ Cardinality(ErrorsFor(st.id)) <= 1

\* C13: a tool call that fails does not abort its siblings or the request:
\* in chatStream every call of the turn is still dealt with, and in chat a
\* failed invocation does not make the request fail.
C13_SiblingsProceed ==
  /\ AfterToolCalls => EachCallHandled
  /\ (~req.stream /\ Finished /\ \E k \in 1..Len(log.invoked) : ~log.invoked[k].ok) =>
       reply.kind = "response"

\* C14: updateMCPServer spawns no process and caches no client: every
\* client is constructed by getMCPClientByName, and so is every cached one.
C14_LazyReconnect ==
  /\ \A h \in DOMAIN clients : clients[h].by = "get"
  /\ \A s \in Servers : mcpClients[s] # NoClient => clients[mcpClients[s]].by = "get"

C17_FinalCall ==
  /\ [](loop > MAX_TOOL_LOOPS => pc \in {"chatFinal", "done"})
  /\ []((loop > MAX_TOOL_LOOPS /\ Finished) =>
          /\ Len(log.gen) = MAX_TOOL_LOOPS + 1
          /\ log.gen[MAX_TOOL_LOOPS + 1].tools = <<>>
          /\ log.gen[MAX_TOOL_LOOPS + 1].messages = messages
          /\ reply.kind \in {"response", "error"}
          /\ (reply.kind = "error" <=> log.exit = "backend_error"))
  /\ [][pc = "chatFinal" =>
          /\ pc' = "done"
          /\ Len(log'.gen) = Len(log.gen) + 1
          /\ log'.invoked = log.invoked]_vars

\* chat has made five generation calls that offered tools, each answered
\* with tool calls that were invoked, and the sixth without tools.
C17_Witness ==
  /\ ~req.stream
  /\ Finished
  /\ loop = MAX_TOOL_LOOPS + 1
  /\ Len(log.gen) = MAX_TOOL_LOOPS + 1
  /\ \A k \in 1..MAX_TOOL_LOOPS : log.gen[k].tools # <<>>
  /\ Len(log.invoked) >= MAX_TOOL_LOOPS
  /\ reply.kind = "response"

\* C18: the terminal [DONE] frame is the last frame of every streaming request:
\* a done frame is the last frame delivered, the stream is ended with it, and no
\* frame of any kind is written to the stream after its end.
C18_DoneIsLast ==
  req.stream =>
    /\ out.late = <<>>
    /\ \A i \in Frames("done") : i = Len(out.frames) /\ out.ended
    /\ (out.ended /\ out.frames # <<>>) => out.frames[Len(out.frames)].type = "done"

\* A tool turn that ran: chunks and tool frames come first, [DONE] comes last.
C18_Witness ==
  /\ req.stream /\ Finished /\ log.exit = "tool_turn"
  /\ Frames("chunk") # {}
  /\ Frames("tool_result") \cup Frames("tool_error") # {}
  /\ out.frames[Len(out.frames)].type = "done"

\* C19: in autonomous mode with a tool server, once the calls of a turn have
\* been invoked and their results appended to the Conversation as tool
\* messages, another generation call is issued whose Conversation includes
\* those tool messages.  A request that failed while fetching the manifest
\* of the next turn is left aside: that failure ends the request by itself.
C19_ReturnsToGenerating ==
  (Finished /\ req.isYolo /\ req.mcpServerNames # <<>> /\ log.exit # "manifest_error") =>
    \A k \in 1..Len(log.invoked) :
      (log.invoked[k].ok /\ HasToolMsg(messages, log.invoked[k].id)) =>
        \E g \in 1..Len(log.gen) : HasToolMsg(log.gen[g].messages, log.invoked[k].id)

\* The servers of the request's clients, in the order of registration, and
\* the first of them whose manifest holds a usable tool of the given name.
ClientNames ==
  IF req.stream THEN StreamClients ELSE [i \in 1..Len(chatClients) |-> chatClients[i].name]
Advertises(s, name) ==
  \E j \in 1..Len(ServerTools(s)) : ServerTools(s)[j].name = name /\ ServerTools(s)[j].inputSchema
Advertised(name) == \E i \in 1..Len(ClientNames) : Advertises(ClientNames[i], name)
Advertiser(name) ==
  ClientNames[CHOOSE i \in 1..Len(ClientNames) :
                /\ Advertises(ClientNames[i], name)
                /\ \A j \in 1..(i - 1) : ~Advertises(ClientNames[j], name)]

\* C20: a call to an advertised tool is invoked on the first-registered server
\* that advertised a tool of that name, and is never rejected as having no
\* server.
C20_AdvertisingServer ==
  /\ \A k \in 1..Len(log.invoked) :
       Advertised(log.invoked[k].name) => log.invoked[k].server = Advertiser(log.invoked[k].name)
  /\ (~req.stream /\ reply.why = "no_client_for_tool") =>
       ~Advertised(choice.calls[cursor - 1].name)

\* The tool lists of the servers that answered, in the order of the clients.
ListedTools ==
  LET oks == SelectSeq(toolLists, LAMBDA l : l.ok) IN [i \in 1..Len(oks) |-> oks[i].tools]

\* C21: a server that fails to list its tools is skipped and is not fatal: the
\* request that met such a server in its last turn has made the generation
\* call of that turn, with the manifest of the servers that did answer.
C21_SkipFailedLister ==
  (Finished /\ \E i \in 1..Len(toolLists) : ~toolLists[i].ok) =>
    /\ log.exit # "manifest_error"
    /\ Len(log.gen) >= 1
    /\ log.gen[Len(log.gen)].tools = ConvertTools(ListedTools)

\* A server named by the request has no launch configuration.
Unconfigured ==
  \E i \in 1..Len(req.mcpServerNames) : mcpConfig[req.mcpServerNames[i]] = NoCfg

StoppedTurn ==
  /\ req.stream
  /\ ChunkSeq # <<>>
  /\ ChunkSeq[Len(ChunkSeq)].chunk.finish = "stop"

\* C23: a streamed turn that ends with a finish reason other than tool_calls
\* invokes no tool, is the only generation call, and leaves the Conversation
\* as it was; when the stream of chunks is exhausted the terminal frame is
\* written directly after the last forwarded chunk and the request is done.
\* chat returns the response of such a turn without touching the Conversation.
C23_StopIsDone ==
  /\ StoppedTurn =>
       /\ log.invoked = <<>>
       /\ log.resolved = <<>>
       /\ Len(log.gen) = 1
       /\ messages = req.messages
       /\ Frames("tool_result") \cup Frames("tool_error") = {}
  /\ (req.stream /\ Finished /\ log.exit = "stop") =>
       /\ Len(out.frames) = resp.n + 1
       /\ \A i \in 1..resp.n : out.frames[i].type = "chunk" /\ out.frames[i].chunk.n = i
       /\ out.frames[resp.n + 1] = DoneFrame(TRUE)
       /\ out.ended
       /\ messages = req.messages
       /\ Len(log.gen) = 1
  /\ (~req.stream /\ Finished /\ log.exit = "stop") =>
       /\ reply = RouteReply
       /\ log.gen[Len(log.gen)].messages = messages

\* A turn that streamed the fragments of a tool call and then finish_reason
\* 'stop' has ended: the call was accumulated but never finalized.
C23_Witness ==
  /\ StoppedTurn /\ Finished /\ log.exit = "stop"
  /\ toolCallStates # <<>>
  /\ req.isYolo /\ req.mcpServerNames # <<>>
  /\ out.frames[Len(out.frames)] = DoneFrame(TRUE)

\* C24: the Conversation of a request is a copy of the caller's messages that
\* only grows by appending: it always has the caller's messages as a prefix,
\* every step keeps the messages it had as a prefix of the new ones, and the
\* caller's array is not changed.
C24_AppendOnly ==
  /\ [](/\ Len(messages) >= Len(req.messages)
        /\ SubSeq(messages, 1, Len(req.messages)) = req.messages)
  /\ [][/\ Len(messages') >= Len(messages)
        /\ SubSeq(messages', 1, Len(messages)) = messages
        /\ req'.messages = req.messages]_vars

\* A streaming request whose tool turn appended an assistant message and a
\* tool message to a Conversation of three messages.
C24_Witness ==
  /\ req.stream /\ Finished
  /\ Len(req.messages) = 3
  /\ Len(messages) >= 5
  /\ messages[Len(messages)].role = "tool"

\* endStream() called on the state as it is, and called once more after that.
EndOnce == endStream(out, streamEnded, messages, toolResults)
EndTwice == endStream(EndOnce.out, EndOnce.streamEnded, EndOnce.messages, toolResults)

\* C25: the end operation is idempotent (a call after the first writes no
\* frame, appends nothing to the Conversation and changes nothing), and every
\* exit path of a streaming request ends the stream through it, so an ended
\* stream is one on which endStream has run and whose terminal frame is the
\* one endStream writes.
C25_SingleEnd ==
  /\ EndTwice = EndOnce
  /\ streamEnded => EndOnce = [out |-> out, messages |-> messages, streamEnded |-> TRUE]
  /\ (req.stream /\ out.ended) =>
       /\ streamEnded
       /\ out.frames[Len(out.frames)] = DoneFrame(TRUE)

\* C26: a streaming request that met a backend failure (the generation call
\* rejected, or reading the chunks threw) has written, after the chunks it
\* had forwarded, one error frame and then the terminal frame, has ended the
\* stream, and has made no other generation call.
C26_BackendFailure ==
  (req.stream /\ Finished /\ log.exit = "backend_error") =>
    LET n == Len(out.frames) IN
    /\ n = resp.n + 2
    /\ \A i \in 1..resp.n : out.frames[i].type = "chunk"
    /\ out.frames[n - 1] = RouteErrorFrame
    /\ out.frames[n].type = "done"
    /\ Frames("error") = {}
    /\ out.ended
    /\ out.late = <<>>
    /\ Len(log.gen) = 1
    /\ log.invoked = <<>>

\* Reading the chunks threw after fragments of a tool call had been forwarded.
C26_Witness ==
  /\ req.stream /\ Finished /\ log.exit = "backend_error"
  /\ toolCallStates # <<>>
  /\ resp.n >= 2
  /\ Frames("route_error") = {resp.n + 1}

\* The registry gets made for server s in turn l of the request.
GetsIn(s, l) == {k \in 1..Len(log.gets) : log.gets[k].server = s /\ log.gets[k].loop = l}

\* C27: in any turn of a request, getMCPClientByName is called at most once for
\* a given server, however many tools it lists and however many calls of the
\* turn are invoked.
C27_OneGetPerTurn ==
  \A s \in Servers : \A l \in 0..(MAX_TOOL_LOOPS + 1) : Cardinality(GetsIn(s, l)) <= 1

StateIds == {toolCallStates[k].id : k \in 1..Len(toolCallStates)}
Ids(entries) == {entries[k].id : k \in 1..Len(entries)}

RECURSIVE AllFrags(_)
AllFrags(frames) ==
  IF frames = <<>> THEN <<>> ELSE Head(frames).chunk.frags \o AllFrags(Tail(frames))

\* C29: every call that a fragment was received for has a state, and the
\* state's arguments buffer is the concatenation, in arrival order, of all
\* the arguments fragments received for that call, its name the name received.
C29_IngestAppends ==
  req.stream =>
    /\ \A j \in 1..Len(AllFrags(out.frames)) :
         \E k \in 1..Len(toolCallStates) : toolCallStates[k].index = AllFrags(out.frames)[j].index
    /\ \A k \in 1..Len(toolCallStates) :
         LET st == toolCallStates[k] IN
         /\ st.arguments = Delivered(out.frames, st.index)
         /\ \A j \in 1..Len(AllFrags(out.frames)) :
              LET f == AllFrags(out.frames)[j] IN
              (f.index = st.index /\ f.name # "") => st.name = f.name

\* C30: after every ingestion the argumentsComplete flag of each state says
\* whether its arguments buffer, trimmed, is non-empty, begins with '{', ends
\* with '}' and parses; it is false for an empty buffer.
C30_CompleteFlag ==
  \A k \in 1..Len(toolCallStates) :
    LET st == toolCallStates[k]
        trimmed == Trim(st.arguments) IN
    /\ st.argumentsComplete <=>
         /\ trimmed # <<>>
         /\ Head(trimmed) = LB
         /\ trimmed[Len(trimmed)] = RB
         /\ JSONParse(trimmed).ok
    /\ st.arguments = <<>> => ~st.argumentsComplete

\* An object arrived in two fragments: the buffer of the first chunk was a
\* strict prefix that is not well formed, and the buffer is complete now.
C30_Witness ==
  /\ req.stream
  /\ Len(toolCallStates) = 1
  /\ toolCallStates[1].argumentsComplete
  /\ Len(ChunkSeq) >= 2
  /\ LET first == FragArgs(ChunkSeq[1].chunk.frags, 0) IN
       /\ first # <<>>
       /\ Len(first) < Len(toolCallStates[1].arguments)
       /\ ~JSONParse(Trim(first)).ok

\* The finalize step of a state takes the recovery branch (line 577).
Recovers(st) == ~st.argumentsComplete \/ Trim(st.arguments) = <<>>

\* C31: the recovery scans the most recent user message of the Conversation:
\* a call finalized through the recovery is resolved whenever that message
\* holds a path token, and the object it is resolved with is {path: token}
\* for the token of that message.
C31_MostRecentUser ==
  AfterToolCalls =>
    \A k \in 1..Len(toolCallStates) :
      LET st == toolCallStates[k]
          e == extractPathFromMessage(LastUser(req.messages)) IN
      Recovers(st) =>
        /\ (e.found /\ e.path # <<>>) => Resolved(st.id)
        /\ \A j \in 1..Len(log.resolved) :
             log.resolved[j].id = st.id =>
               e.found /\ log.resolved[j].args = PathObject(e.path)

\* C32: after the caller has closed the outward stream nothing more is
\* written to it: no chunk received later, no tool_result of an invocation
\* that completes later, no other frame.
C32_NoWriteAfterClose == out.late = <<>>

\* No call of the registry is suspended at its connect step.
Quiet == \A c \in Callers : call[c].op = "idle"

\* C33: an update replaces the connection of its server wholesale, also when
\* it races with a get: once the calls have finished, a handle that a get
\* left in the cache is one launched from the configuration stored for its
\* server, never one launched from a configuration that an update replaced.
C33_ReplacedWholesale ==
  Quiet =>
    \A s \in Servers :
      (mcpClients[s] # NoClient /\ clients[mcpClients[s]].by = "get") =>
        clients[mcpClients[s]].cfg = mcpConfig[s]

C35_CachedIsConnected ==
  /\ [](\A s \in Servers :
          mcpClients[s] # NoClient =>
            /\ mcpClients[s] \in DOMAIN clients
            /\ clients[mcpClients[s]].server = s
            /\ clients[mcpClients[s]].state = "connected"
            /\ clients[mcpClients[s]].cfg \in Cfgs)
  /\ [][\A s \in Servers :
          (mcpClients'[s] # NoClient /\ mcpClients'[s] # mcpClients[s]) =>
            \E c \in Callers :
              /\ getConnected(c) \/ updateConnected(c)
              /\ call[c].server = s
              /\ call[c].client = mcpClients'[s]
              /\ clients[mcpClients'[s]].state = "connecting"]_vars

\* A connected client is cached for s1 while another client of s1, whose
\* connect was rejected, is not in the cache.
C35_Witness ==
  /\ mcpClients["s1"] # NoClient
  /\ clients[mcpClients["s1"]].state = "connected"
  /\ \E k \in DOMAIN clients :
       /\ clients[k].server = "s1" /\ clients[k].state = "failed"
       /\ mcpClients["s1"] # k

\* The frames of one type, in the order in which they were written.
FramesOf(type) == SelectSeq(out.frames, LAMBDA f : f.type = type)

\* What the request has appended to the Conversation it was given.
Appended == SubSeq(messages, Len(req.messages) + 1, Len(messages))

\* C36: when a streaming tool turn has ended, the tool Messages appended to
\* the Conversation match the tool_result frames of the turn one to one and
\* in order (tool name, id of the originating call), no call that got a
\* tool_error frame has a tool Message, and the Messages follow directly an
\* assistant message that lists their tool_call_ids.
C36_ToolMessagesMatchFrames ==
  (req.stream /\ pc = "done" /\ log.exit = "tool_turn") =>
    LET R == FramesOf("tool_result")
        E == FramesOf("tool_error")
        T == SelectSeq(Appended, LAMBDA m : m.role = "tool") IN
      /\ Len(T) = Len(R)
      /\ \A i \in 1..Len(T) : T[i].name = R[i].name /\ T[i].id = R[i].call
      /\ \A i \in 1..Len(T) : \A j \in 1..Len(E) : T[i].id # E[j].call
      /\ IF R = <<>>
           THEN Appended = <<>>
           ELSE /\ Len(Appended) = Len(R) + 1
                /\ Appended[1].role = "assistant"
                /\ Appended[1].calls = [i \in 1..Len(T) |-> T[i].id]
                /\ SubSeq(Appended, 2, Len(Appended)) = T

\* A tool turn has ended in which two calls produced tool_result frames.
C36_Witness ==
  /\ req.stream /\ pc = "done" /\ log.exit = "tool_turn"
  /\ Len(FramesOf("tool_result")) = 2
  /\ FramesOf("tool_result")[1].call # FramesOf("tool_result")[2].call
  /\ Len(SelectSeq(messages, LAMBDA m : m.role = "tool")) = 2

\* A tool turn has ended in which one call produced a tool_error frame and
\* another a tool_result frame.
C36_WitnessError ==
  /\ req.stream /\ pc = "done" /\ log.exit = "tool_turn"
  /\ Len(FramesOf("tool_result")) = 1
  /\ Len(FramesOf("tool_error")) = 1

ErrorFrames == Frames("provider_error") \cup Frames("route_error")

\* C37: when a streaming request to the DeepSeek or the Ollama provider has
\* finished, by completion or by an error, the stream holds exactly one
\* [DONE] frame, which is its last frame; on an error exactly one error frame,
\* directly before it, and none otherwise; and at no time was a frame written
\* after the stream had been ended.
C37_SingleShot ==
  /\ out.late = <<>>
  /\ out.ended => pc = "done"
  /\ Cardinality(Frames("done")) <= 1
  /\ pc = "done" =>
       /\ out.ended
       /\ Frames("done") = {Len(out.frames)}
       /\ IF log.exit = "completed"
            THEN ErrorFrames = {}
            ELSE ErrorFrames = {Len(out.frames) - 1}
       /\ \A i \in Frames("event") : i < Len(out.frames) /\ i \notin ErrorFrames

\* The delta stream of the Ollama provider threw after two events had been
\* written.
C37_Witness ==
  /\ req.provider = "ollama"
  /\ pc = "done" /\ log.exit = "stream_error"
  /\ Cardinality(Frames("event")) = 2
  /\ Cardinality(Frames("provider_error")) = 1

\* The same for the DeepSeek provider, and a completed stream.
C37_WitnessDeepSeek ==
  /\ req.provider = "deepseek"
  /\ pc = "done" /\ log.exit = "stream_error"
  /\ Cardinality(Frames("event")) = 2

C37_WitnessCompleted ==
  /\ pc = "done" /\ log.exit = "completed"
  /\ Cardinality(Frames("event")) = MaxDeltas

=============================================================================
